---- MODULE Spec2Model ----
(***************************************************************************)
(* Model of src/homwork11.py: the batch pipeline of main()                 *)
(*   create_dataframe -> split_logs -> mark_suspicious_win ->              *)
(*   mark_suspicious_dns -> boolean filters -> empty check ->              *)
(*   prepare_labels -> plot_top10 -> sample printing.                      *)
(*                                                                         *)
(* Strings are sequences of one-character strings, so that lower(),        *)
(* substring search, number parsing and number formatting are computed.    *)
(* A cell of a DataFrame is a tagged value:                                *)
(*   "nan"  the NaN pandas puts where a record has no such key             *)
(*   "none" a JSON null                                                    *)
(*   "str"  a string (field s), "num" a number (field n),                  *)
(*   "list" a list of strings (field l).                                   *)
(* In a raw record (a dict handed over by load_data) the tag "missing"     *)
(* says that the dict has no such key.                                     *)
(***************************************************************************)
EXTENDS Integers, Sequences, FiniteSets, TLC

VARIABLES pc, err, calls, results, df, win_df, dns_df, win_susp, dns_susp,
          all_susp, top

vars == <<pc, err, calls, results, df, win_df, dns_df, win_susp, dns_susp,
          all_susp, top>>

(* ------------------------------ bounds --------------------------------- *)

\* longest input built freely from the catalogue of record kinds
MaxRecords == 3

\* number of pool records the long inputs are built from
PoolSize == 12

\* how many pool records a long input may leave out
MaxLeftOut == 1

(* ------------------------------ values --------------------------------- *)

Missing == [t |-> "missing", s |-> <<>>, n |-> 0, l |-> <<>>]

NaN == [t |-> "nan", s |-> <<>>, n |-> 0, l |-> <<>>]

None == [t |-> "none", s |-> <<>>, n |-> 0, l |-> <<>>]

Str(chars) == [t |-> "str", s |-> chars, n |-> 0, l |-> <<>>]

Num(k) == [t |-> "num", s |-> <<>>, n |-> k, l |-> <<>>]

List(items) == [t |-> "list", s |-> <<>>, n |-> 0, l |-> items]

Range(f) == {f[i] : i \in DOMAIN f}

(* ------------------------------ strings -------------------------------- *)

UpperChars == <<"A","B","C","D","E","F","G","H","I","J","K","L","M",
                "N","O","P","Q","R","S","T","U","V","W","X","Y","Z">>

LowerChars == <<"a","b","c","d","e","f","g","h","i","j","k","l","m",
                "n","o","p","q","r","s","t","u","v","w","x","y","z">>

DigitChars == <<"0","1","2","3","4","5","6","7","8","9">>

\* str.lower() on one character
lower_char(c) ==
    IF \E i \in DOMAIN UpperChars : UpperChars[i] = c
    THEN LowerChars[CHOOSE i \in DOMAIN UpperChars : UpperChars[i] = c]
    ELSE c

\* str.lower()
lower(str) == [i \in DOMAIN str |-> lower_char(str[i])]

\* the Python test  sub in str  on strings
contains(sub, str) ==
    \E i \in 1..(Len(str) - Len(sub) + 1) :
        SubSeq(str, i, i + Len(sub) - 1) = sub

IsDigit(c) == \E i \in DOMAIN DigitChars : DigitChars[i] = c

DigitVal(c) == (CHOOSE i \in DOMAIN DigitChars : DigitChars[i] = c) - 1

RECURSIVE ParseDigits(_)
ParseDigits(str) ==
    IF str = <<>> THEN 0
    ELSE 10 * ParseDigits(SubSeq(str, 1, Len(str) - 1)) + DigitVal(str[Len(str)])

\* f"{x:.0f}" of a non-negative whole number: its decimal digits, no fraction
RECURSIVE format_0f(_)
format_0f(k) ==
    IF k < 10 THEN <<DigitChars[k + 1]>>
    ELSE format_0f(k \div 10) \o <<DigitChars[(k % 10) + 1]>>

\* str(x) as the f-string of prepare_labels renders a cell: a string as it
\* is, NaN as "nan". (signature cells are strings or NaN in every input here.)
to_str(v) ==
    CASE v.t = "str"  -> v.s
      [] v.t = "num"  -> format_0f(v.n)
      [] OTHER        -> <<"n","a","n">>

S_DNS == <<"D","N","S">>

S_suspicious == <<"s","u","s","p","i","c","i","o","u","s">>

S_malicious == <<"m","a","l","i","c","i","o","u","s">>

S_c2dot == <<"c","2",".">>

S_unknown == <<"u","n","k","n","o","w","n">>

S_unknown_dns == <<"u","n","k","n","o","w","n","_","d","n","s">>

S_WinEvent == <<"W","i","n","E","v","e","n","t"," ">>

S_colon == <<":"," ">>

(* ------------------------- input records (Loader) ---------------------- *)

Fields == {"EventCode", "QueryName", "eventtype", "signature",
           "ComputerName", "ClientIP"}

\* one item['result'] dict of load_data
Rec(ec, qn, et, sig, cn, ip) ==
    [EventCode |-> ec, QueryName |-> qn, eventtype |-> et, signature |-> sig,
     ComputerName |-> cn, ClientIP |-> ip]

S_LogonFail == <<"L","o","g","o","n","F","a","i","l">>

S_Other == <<"O","t","h","e","r">>

S_bad_c2_net == <<"b","a","d",".","c","2",".","n","e","t">>

S_good_net == <<"g","o","o","d",".","n","e","t">>

S_c2_evil_com == <<"c","2",".","e","v","i","l",".","c","o","m">>

S_safe_example_com ==
    <<"s","a","f","e",".","e","x","a","m","p","l","e",".","c","o","m">>

S_MALICIOUS_io == <<"M","A","L","I","C","I","O","U","S",".","i","o">>

S_pc == <<"p","c">>

S_ip == <<"1","0",".","0",".","0",".","1">>

S_dns == <<"d","n","s">>

\* The kinds of record the free inputs are built from.
Catalogue ==
    << \* Windows records
       Rec(Str(<<"4","6","2","5">>), Missing, Missing, Str(S_LogonFail),
           Str(S_pc), Missing),
       Rec(Str(<<"9","9","9","9">>), Missing, Missing, Str(S_Other),
           Missing, Missing),
       Rec(Num(4672), Missing, Missing, Missing, Str(S_pc), Missing),
       Rec(Str(<<"a","b","c">>), Missing, Missing, Str(S_Other), Missing, Missing),
       Rec(Missing, Str(S_c2_evil_com), List(<<S_suspicious>>), Missing,
           Missing, Missing),
       \* DNS records
       Rec(Str(S_DNS), Str(S_bad_c2_net), List(<<S_dns>>), Missing, Missing,
           Str(S_ip)),
       Rec(Str(S_DNS), Str(S_safe_example_com), Str(S_suspicious), Missing,
           Missing, Missing),
       Rec(Str(S_DNS), Missing, List(<<S_dns, S_suspicious>>), Missing, Missing,
           Str(S_ip)),
       Rec(Str(S_DNS), Str(S_MALICIOUS_io), Missing, Missing, Missing, Missing),
       Rec(Str(S_DNS), None, List(<<S_suspicious>>), Missing, Missing, Missing) >>

RECURSIVE SeqsUpTo(_, _)
SeqsUpTo(S, k) ==
    IF k = 0 THEN {<<>>}
    ELSE LET shorter == SeqsUpTo(S, k - 1)
         IN  shorter \cup {Append(q, x) : q \in shorter, x \in S}

FreeInputs == SeqsUpTo(Range(Catalogue), MaxRecords)

\* The end-to-end scenario: Windows codes 4625, 4625, 9999 with signatures
\* LogonFail, LogonFail, Other; DNS queries bad.c2.net and good.net.
Scenario ==
    << Rec(Str(<<"4","6","2","5">>), Missing, Missing, Str(S_LogonFail),
           Missing, Missing),
       Rec(Str(<<"4","6","2","5">>), Missing, Missing, Str(S_LogonFail),
           Missing, Missing),
       Rec(Str(<<"9","9","9","9">>), Missing, Missing, Str(S_Other),
           Missing, Missing),
       Rec(Str(S_DNS), Str(S_bad_c2_net), Missing, Missing, Missing, Missing),
       Rec(Str(S_DNS), Str(S_good_net), Missing, Missing, Missing, Missing) >>

SuspCodes == <<4625, 4672, 4703, 4648, 4688>>

\* Pool record i: every third one a suspicious DNS query "c2.<i>", the others
\* suspicious Windows events with signature "s<i>"; all labels differ.
PoolRec(i) ==
    IF i % 3 = 0
    THEN Rec(Str(S_DNS), Str(S_c2dot \o format_0f(i)), List(<<S_dns>>),
             Missing, Missing, Str(S_ip))
    ELSE Rec(Str(format_0f(SuspCodes[(i % 5) + 1])), Missing, Missing,
             Str(<<"s">> \o format_0f(i)), Str(S_pc), Missing)

\* Pool record i occurs Mult(i) times: counts 1,1,2,2,3,3,... (tied in pairs)
Mult(i) == (i + 1) \div 2

Copies(x, k) == [j \in 1..k |-> x]

\* The long input that holds Mult(i) copies of every pool record i in S,
\* in the order of i.
RECURSIVE PoolInput(_, _)
PoolInput(S, i) ==
    IF i = 0 THEN <<>>
    ELSE PoolInput(S, i - 1) \o (IF i \in S THEN Copies(PoolRec(i), Mult(i)) ELSE <<>>)

PoolInputs ==
    {PoolInput(S, PoolSize) :
        S \in {T \in SUBSET (1..PoolSize) :
                   Cardinality((1..PoolSize) \ T) <= MaxLeftOut}}

Inputs == FreeInputs \cup {Scenario} \cup PoolInputs

(* ----------------------------- DataFrames ------------------------------ *)

\* A frame: its columns, its rows (each with its index label idx and a cell
\* for every column name of the program) and the dtype of column 'suspicious'.
NoFrame == [cols |-> {}, rows |-> <<>>, sdt |-> "absent"]

cell(v) == IF v = Missing THEN NaN ELSE v

\* pd.DataFrame(results): the columns are the keys that occur in some record;
\* a record without a key gets NaN in that column.
create_dataframe(res) ==
    [cols |-> {f \in Fields : \E i \in DOMAIN res : res[i][f] # Missing},
     rows |-> [i \in DOMAIN res |->
                 [idx |-> i,
                  EventCode |-> cell(res[i].EventCode),
                  QueryName |-> cell(res[i].QueryName),
                  eventtype |-> cell(res[i].eventtype),
                  signature |-> cell(res[i].signature),
                  ComputerName |-> cell(res[i].ComputerName),
                  ClientIP |-> cell(res[i].ClientIP),
                  EventCode_num |-> NaN,
                  suspicious |-> FALSE,
                  event_label |-> NaN]],
     sdt |-> "absent"]

IsDnsRow(r) == r.EventCode = Str(S_DNS)

IsWinRow(r) == r.EventCode # Str(S_DNS)

\* df[df['EventCode'] != 'DNS'].copy()
split_logs_win(d) == [d EXCEPT !.rows = SelectSeq(d.rows, IsWinRow)]

\* df[df['EventCode'] == 'DNS'].copy()
split_logs_dns(d) == [d EXCEPT !.rows = SelectSeq(d.rows, IsDnsRow)]

(* --------------------------- classification --------------------------- *)

suspicious_ids == {4625, 4672, 4703, 4648, 4688}

\* pd.to_numeric(..., errors='coerce') on one cell: a number stays, a string
\* of decimal digits parses, NaN, None and any other string become NaN.
\* (EventCode cells are numbers, strings, None or NaN in every input here.)
to_numeric(v) ==
    CASE v.t = "num" -> v
      [] v.t = "str" /\ v.s # <<>> /\ (\A i \in DOMAIN v.s : IsDigit(v.s[i]))
                     -> Num(ParseDigits(v.s))
      [] OTHER       -> NaN

\* Series.isin(suspicious_ids) on one cell: NaN is in no set
isin(v, ids) == v.t = "num" /\ v.n \in ids

\* mutant: isin() applied to the raw EventCode cell instead of the parsed one
mark_suspicious_win_raw(d) ==
    [cols |-> d.cols \cup {"EventCode_num", "suspicious"},
     rows |-> [i \in DOMAIN d.rows |->
                 [d.rows[i] EXCEPT
                    !.EventCode_num = to_numeric(d.rows[i].EventCode),
                    !.suspicious = isin(d.rows[i].EventCode, suspicious_ids)]],
     sdt |-> "bool"]

mark_suspicious_win(d) ==
    [cols |-> d.cols \cup {"EventCode_num", "suspicious"},
     rows |-> [i \in DOMAIN d.rows |->
                 [d.rows[i] EXCEPT
                    !.EventCode_num = to_numeric(d.rows[i].EventCode),
                    !.suspicious = isin(to_numeric(d.rows[i].EventCode),
                                        suspicious_ids)]],
     sdt |-> "bool"]

\* row.get('QueryName'): None when the frame has no such column
row_get(row, cols, name, default) == IF name \in cols THEN row[name] ELSE default

\* mutant: the QueryName test without lower()
is_suspicious_case(row, cols) ==
    LET qname == row_get(row, cols, "QueryName", None)
    IN  \/ /\ "eventtype" \in cols
           /\ row.eventtype.t = "list"
           /\ S_suspicious \in Range(row.eventtype.l)
        \/ /\ qname.t = "str"
           /\ \/ contains(S_malicious, qname.s)
              \/ contains(S_c2dot, qname.s)

\* the nested function is_suspicious(row) of mark_suspicious_dns
is_suspicious(row, cols) ==
    LET qname == row_get(row, cols, "QueryName", None)
    IN  \/ /\ "eventtype" \in cols
           /\ row.eventtype.t = "list"
           /\ S_suspicious \in Range(row.eventtype.l)
        \/ /\ qname.t = "str"
           /\ \/ contains(S_malicious, lower(qname.s))
              \/ contains(S_c2dot, lower(qname.s))

\* dns_df.apply(is_suspicious, axis=1): on a frame without rows apply() returns
\* an empty float64 Series (no row was classified), otherwise a bool Series.
mark_suspicious_dns(d) ==
    IF d.rows = <<>>
    THEN [cols |-> d.cols \cup {"suspicious"}, rows |-> <<>>, sdt |-> "float64"]
    ELSE [cols |-> d.cols \cup {"suspicious"},
          rows |-> [i \in DOMAIN d.rows |->
                      [d.rows[i] EXCEPT
                         !.suspicious = is_suspicious(d.rows[i], d.cols)]],
          sdt |-> "bool"]

IsSuspiciousRow(r) == r.suspicious

\* frame[frame['suspicious']]: a bool key selects rows; a key that is not bool
\* (the empty float64 one) is read as a list of column names, here none, and
\* the result has no column at all.
filter_suspicious(d) ==
    IF d.sdt = "bool"
    THEN [d EXCEPT !.rows = SelectSeq(d.rows, IsSuspiciousRow)]
    ELSE [cols |-> {}, rows |-> <<>>, sdt |-> "absent"]

\* mutant: the test looks at the whole partitions, not at their suspicious rows
no_suspicious_frames(ws, ds) == Len(win_df.rows) = 0 /\ Len(dns_df.rows) = 0

\* len(win_susp) == 0 and len(dns_susp) == 0
no_suspicious(ws, ds) == Len(ws.rows) = 0 /\ Len(ds.rows) = 0

(* ------------------------------- labels -------------------------------- *)

\* f"WinEvent {row['EventCode_num']:.0f}: {row.get('signature', 'unknown')}"
\* The default of row.get is used only when the frame has no signature
\* column; a NaN or None cell of an existing column is rendered as it is.
win_label(row, cols) ==
    Str(S_WinEvent \o format_0f(row.EventCode_num.n) \o S_colon
        \o to_str(row_get(row, cols, "signature", Str(S_unknown))))

\* fillna('unknown_dns') on one cell
fillna(v, value) == IF v.t \in {"nan", "none"} THEN value ELSE v

label_win(ws) ==
    [cols |-> ws.cols \cup {"event_label"},
     rows |-> [i \in DOMAIN ws.rows |->
                 [ws.rows[i] EXCEPT !.event_label = win_label(ws.rows[i], ws.cols)]],
     sdt |-> ws.sdt]

label_dns(ds) ==
    [cols |-> ds.cols \cup {"event_label"},
     rows |-> [i \in DOMAIN ds.rows |->
                 [ds.rows[i] EXCEPT
                    !.event_label = fillna(ds.rows[i].QueryName, Str(S_unknown_dns))]],
     sdt |-> ds.sdt]

\* pd.concat([win_susp, dns_susp], ignore_index=True)
concat(a, b) ==
    LET rs == a.rows \o b.rows
    IN  [cols |-> a.cols \cup b.cols,
         rows |-> [i \in DOMAIN rs |-> [rs[i] EXCEPT !.idx = i]],
         sdt |-> "bool"]

\* mutant: the labelled Windows rows are returned without the DNS rows
prepare_labels_win_only(ws, ds) == concat(label_win(ws), NoFrame)

prepare_labels(ws, ds) == concat(label_win(ws), label_dns(ds))

(* ------------------------------- ranking ------------------------------- *)

TopN == 10

Labels(d) == [i \in DOMAIN d.rows |-> d.rows[i].event_label]

\* the distinct elements of a sequence in the order of their first occurrence
\* (the keys of the hash table the counting pass fills)
unique(q) ==
    LET first == {i \in DOMAIN q : \A j \in 1..(i - 1) : q[j] # q[i]}
    IN  [k \in 1..Cardinality(first) |->
            q[CHOOSE i \in first : Cardinality({j \in first : j < i}) = k - 1]]

Occurrences(q, x) == Cardinality({i \in DOMAIN q : q[i] = x})

\* the counting pass of value_counts(): one (label, count) per distinct label
count_labels(q) ==
    LET u == unique(q)
    IN  [k \in DOMAIN u |-> [event |-> u[k], count |-> Occurrences(q, u[k])]]

\* mutant: ascending sort
sort_pick_ascending(vc, rem) == {i \in rem : \A j \in rem : vc[i].count <= vc[j].count}

\* the pick of sort_values(ascending=False) among the entries left: one with
\* the greatest count
sort_pick(vc, rem) == {i \in rem : \A j \in rem : vc[j].count <= vc[i].count}

\* value_counts() sorts with sort_values(ascending=False), whose default
\* kind='quicksort' is not a stable sort: the entries come out by descending
\* count, and entries of equal count in an order the sort does not fix.
\* The set of all orders it can produce.
RECURSIVE sort_values(_, _)
sort_values(vc, rem) ==
    IF rem = {} THEN {<<>>}
    ELSE UNION {{<<vc[i]>> \o rest : rest \in sort_values(vc, rem \ {i})} :
                i \in sort_pick(vc, rem)}

value_counts(q) ==
    LET vc == count_labels(q) IN sort_values(vc, DOMAIN vc)

\* mutant: one entry too few
head_short(q, n) == SubSeq(q, 1, IF Len(q) < n - 1 THEN Len(q) ELSE n - 1)

\* .head(n)
head(q, n) == SubSeq(q, 1, IF Len(q) < n THEN Len(q) ELSE n)

(* ------------------------------- main() -------------------------------- *)

\* results = load_data(filename) has returned; nothing else has run yet.
Init ==
    /\ results \in Inputs
    /\ pc = "create_dataframe"
    /\ err = ""
    /\ calls = <<>>
    /\ df = NoFrame
    /\ win_df = NoFrame
    /\ dns_df = NoFrame
    /\ win_susp = NoFrame
    /\ dns_susp = NoFrame
    /\ all_susp = NoFrame
    /\ top = <<>>

\* df = create_dataframe(results)
CreateDataFrame ==
    /\ pc = "create_dataframe"
    /\ df' = create_dataframe(results)
    /\ calls' = Append(calls, "create_dataframe")
    /\ pc' = "split_logs"
    /\ UNCHANGED <<err, results, win_df, dns_df, win_susp, dns_susp, all_susp, top>>

\* win_df, dns_df = split_logs(df); df['EventCode'] raises KeyError when no
\* record of the input has the key (the frame has no such column).
SplitLogs ==
    /\ pc = "split_logs"
    /\ calls' = Append(calls, "split_logs")
    /\ IF "EventCode" \in df.cols
       THEN /\ win_df' = split_logs_win(df)
            /\ dns_df' = split_logs_dns(df)
            /\ pc' = "mark_suspicious_win"
            /\ err' = err
       ELSE /\ pc' = "error"
            /\ err' = "KeyError: EventCode"
            /\ UNCHANGED <<win_df, dns_df>>
    /\ UNCHANGED <<results, df, win_susp, dns_susp, all_susp, top>>

\* win_df = mark_suspicious_win(win_df)
MarkSuspiciousWin ==
    /\ pc = "mark_suspicious_win"
    /\ win_df' = mark_suspicious_win(win_df)
    /\ calls' = Append(calls, "mark_suspicious_win")
    /\ pc' = "mark_suspicious_dns"
    /\ UNCHANGED <<err, results, df, dns_df, win_susp, dns_susp, all_susp, top>>

\* dns_df = mark_suspicious_dns(dns_df)
MarkSuspiciousDns ==
    /\ pc = "mark_suspicious_dns"
    /\ dns_df' = mark_suspicious_dns(dns_df)
    /\ calls' = Append(calls, "mark_suspicious_dns")
    /\ pc' = "filter"
    /\ UNCHANGED <<err, results, df, win_df, win_susp, dns_susp, all_susp, top>>

\* win_susp = win_df[win_df['suspicious']]; dns_susp = dns_df[dns_df['suspicious']]
FilterSuspicious ==
    /\ pc = "filter"
    /\ win_susp' = filter_suspicious(win_df)
    /\ dns_susp' = filter_suspicious(dns_df)
    /\ pc' = "check_empty"
    /\ UNCHANGED <<err, calls, results, df, win_df, dns_df, all_susp, top>>

\* if len(win_susp) == 0 and len(dns_susp) == 0: print(...); return
CheckEmpty ==
    /\ pc = "check_empty"
    /\ pc' = IF no_suspicious(win_susp, dns_susp) THEN "nothing" ELSE "prepare_labels"
    /\ UNCHANGED <<err, calls, results, df, win_df, dns_df, win_susp, dns_susp,
                   all_susp, top>>

\* all_susp = prepare_labels(win_susp, dns_susp), with its three outcomes.
\*  - win_susp.apply(lambda ..., axis=1) on a frame without rows: apply() probes
\*    the lambda with an empty Series; where that probe has no 'EventCode_num'
\*    entry the lambda raises, apply() returns a copy of the frame, and the
\*    assignment of a frame to the single column 'event_label' raises
\*    ValueError. Where the probe is indexed by the columns the lambda returns a
\*    string and the assignment stores an empty column. Both happen, depending
\*    on the pandas installed.
\*  - dns_susp['QueryName'] raises KeyError when dns_susp has no such column.
PrepareLabels ==
    /\ pc = "prepare_labels"
    /\ calls' = Append(calls, "prepare_labels")
    /\ \/ /\ win_susp.rows = <<>>
          /\ pc' = "error"
          /\ err' = "ValueError: event_label"
          /\ UNCHANGED all_susp
       \/ /\ "QueryName" \notin dns_susp.cols
          /\ pc' = "error"
          /\ err' = "KeyError: QueryName"
          /\ UNCHANGED all_susp
       \/ /\ "QueryName" \in dns_susp.cols
          /\ all_susp' = prepare_labels(win_susp, dns_susp)
          /\ pc' = "plot_top10"
          /\ err' = err
    /\ UNCHANGED <<results, df, win_df, dns_df, win_susp, dns_susp, top>>

\* top10 = plot_top10(all_susp):
\* top = all_susp['event_label'].value_counts().head(10).reset_index()
PlotTop10 ==
    /\ pc = "plot_top10"
    /\ calls' = Append(calls, "plot_top10")
    /\ \E sorted \in value_counts(Labels(all_susp)) : top' = head(sorted, TopN)
    /\ pc' = "print_samples"
    /\ UNCHANGED <<err, results, df, win_df, dns_df, win_susp, dns_susp, all_susp>>

\* the columns frame[[...]] asks for must all exist, else KeyError
samples_ok(ws, ds) ==
    /\ Len(ws.rows) > 0 => {"EventCode", "signature", "ComputerName"} \subseteq ws.cols
    /\ Len(ds.rows) > 0 => {"QueryName", "ClientIP", "eventtype"} \subseteq ds.cols

\* the sample rows printed at the end of main()
PrintSamples ==
    /\ pc = "print_samples"
    /\ IF samples_ok(win_susp, dns_susp)
       THEN pc' = "done" /\ err' = err
       ELSE pc' = "error" /\ err' = "KeyError: sample columns"
    /\ UNCHANGED <<calls, results, df, win_df, dns_df, win_susp, dns_susp,
                   all_susp, top>>

Next ==
    \/ CreateDataFrame
    \/ SplitLogs
    \/ MarkSuspiciousWin
    \/ MarkSuspiciousDns
    \/ FilterSuspicious
    \/ CheckEmpty
    \/ PrepareLabels
    \/ PlotTop10
    \/ PrintSamples

Spec == Init /\ [][Next]_vars

(* ------------------- what the specification says ---------------------- *)
(* The rules of the specification, stated on the records the Loader hands  *)
(* over (results), for the properties below.                               *)

ClaimedIds == {4625, 4672, 4703, 4648, 4688}

Called(f) == f \in Range(calls)

SpecIsDns(r) == r.EventCode = Str(S_DNS)

WinRecords == {i \in DOMAIN results : ~SpecIsDns(results[i])}

DnsRecords == {i \in DOMAIN results : SpecIsDns(results[i])}

\* the EventCode is a number of the set, or the decimal numeral of one
SpecWinSuspicious(r) ==
    \E k \in ClaimedIds : r.EventCode = Num(k) \/ r.EventCode = Str(format_0f(k))

SpecWinCode(r) ==
    CHOOSE k \in ClaimedIds : r.EventCode = Num(k) \/ r.EventCode = Str(format_0f(k))

SpecParses(r) ==
    \/ r.EventCode.t = "num"
    \/ /\ r.EventCode.t = "str"
       /\ r.EventCode.s # <<>>
       /\ \A i \in DOMAIN r.EventCode.s : r.EventCode.s[i] \in Range(DigitChars)

SpecDnsSuspicious(r) ==
    \/ /\ r.eventtype.t = "list"
       /\ \E j \in DOMAIN r.eventtype.l : r.eventtype.l[j] = S_suspicious
    \/ /\ r.QueryName.t = "str"
       /\ \/ contains(S_malicious, lower(r.QueryName.s))
          \/ contains(S_c2dot, lower(r.QueryName.s))

SpecSuspicious(r) ==
    IF SpecIsDns(r) THEN SpecDnsSuspicious(r) ELSE SpecWinSuspicious(r)

SuspiciousRecords == {i \in DOMAIN results : SpecSuspicious(results[i])}

Indexes(d) == {d.rows[k].idx : k \in DOMAIN d.rows}

Increasing(d) ==
    \A k, m \in DOMAIN d.rows : k < m => d.rows[k].idx < d.rows[m].idx

\* prepare_labels has returned its frame
Labelled == Called("prepare_labels") /\ pc # "prepare_labels"
            /\ err \notin {"ValueError: event_label", "KeyError: QueryName"}

\* plot_top10 has computed its ranked table
Ranked == Called("plot_top10")

LabelCount(x) == Cardinality({j \in DOMAIN all_susp.rows : all_susp.rows[j].event_label = x})

AllLabels == {all_susp.rows[j].event_label : j \in DOMAIN all_susp.rows}

TopLabels == {top[k].event : k \in DOMAIN top}

\* where a label occurs first in the labelled sequence (Windows rows, then DNS)
FirstSeen(x) ==
    CHOOSE j \in DOMAIN all_susp.rows :
        /\ all_susp.rows[j].event_label = x
        /\ \A i \in 1..(j - 1) : all_susp.rows[i].event_label # x

(* ------------------------------- claims -------------------------------- *)

\* C1 (as stated): once split_logs has been called on any input, it has
\* returned two frames that partition the records: a record is in the DNS
\* frame iff its EventCode is "DNS", every other record is in the Windows
\* frame, the sizes add up, and each frame keeps the input order.
C1_SplitPartitions ==
    Called("split_logs") =>
        /\ err # "KeyError: EventCode"
        /\ Indexes(dns_df) = DnsRecords
        /\ Indexes(win_df) = WinRecords
        /\ Len(win_df.rows) + Len(dns_df.rows) = Len(results)
        /\ Increasing(win_df)
        /\ Increasing(dns_df)

\* C2: after mark_suspicious_win, every Windows record has its row, and the
\* row is suspicious iff the record's EventCode is a number of
\* {4625, 4672, 4703, 4648, 4688} or the numeral of one; an absent or
\* unparseable EventCode gives the NaN sentinel and is not suspicious.
C2_WinRule ==
    Called("mark_suspicious_win") =>
        /\ Indexes(win_df) = WinRecords
        /\ \A k \in DOMAIN win_df.rows :
              LET row == win_df.rows[k]
                  r == results[row.idx]
              IN  /\ row.suspicious <=> SpecWinSuspicious(r)
                  /\ ~SpecParses(r) => row.EventCode_num = NaN /\ ~row.suspicious
                  /\ SpecParses(r) => row.EventCode_num.t = "num"

\* C2 witness: a suspicious code, another parseable code and an unparseable
\* one have all been classified.
C2_Witness ==
    /\ Called("mark_suspicious_win")
    /\ \E a, b, c \in DOMAIN win_df.rows :
          /\ win_df.rows[a].suspicious
          /\ win_df.rows[b].EventCode_num.t = "num" /\ ~win_df.rows[b].suspicious
          /\ win_df.rows[c].EventCode.t = "str" /\ win_df.rows[c].EventCode_num = NaN

\* C3: after mark_suspicious_dns, every DNS record has its row, and the row is
\* suspicious iff eventtype is a list holding "suspicious" or QueryName is a
\* string whose lower-cased form contains "malicious" or "c2."; a missing or
\* wrongly typed field never matches.
C3_DnsRule ==
    Called("mark_suspicious_dns") =>
        /\ Indexes(dns_df) = DnsRecords
        /\ \A k \in DOMAIN dns_df.rows :
              dns_df.rows[k].suspicious <=> SpecDnsSuspicious(results[dns_df.rows[k].idx])

\* C3 witness: one record matched by its eventtype list alone, one by an
\* upper-case QueryName, one not matched although eventtype is the string
\* "suspicious".
C3_Witness ==
    /\ Called("mark_suspicious_dns")
    /\ \E a, b, c \in DOMAIN dns_df.rows :
          /\ dns_df.rows[a].suspicious /\ dns_df.rows[a].QueryName.t # "str"
          /\ dns_df.rows[b].suspicious /\ dns_df.rows[b].QueryName = Str(S_MALICIOUS_io)
          /\ ~dns_df.rows[c].suspicious /\ dns_df.rows[c].eventtype = Str(S_suspicious)

\* C4 (as stated): every suspicious Windows record is labelled
\* "WinEvent <code>: <signature>", with its own signature when it has one and
\* "unknown" when it has none, whatever the other records carry.
C4_WinLabel ==
    Labelled =>
        \A k \in DOMAIN win_susp.rows :
            LET r == results[win_susp.rows[k].idx]
            IN  all_susp.rows[k].event_label =
                    Str(S_WinEvent \o format_0f(SpecWinCode(r)) \o S_colon
                        \o (IF r.signature.t = "str" THEN r.signature.s ELSE S_unknown))

\* C5 (as stated): whenever prepare_labels is given a suspicious DNS record it
\* gets a label, never none: its QueryName when present and not null, else
\* "unknown_dns", also when no record of the input carries a QueryName.
C5_DnsLabel ==
    (Called("prepare_labels") /\ Len(dns_susp.rows) > 0
        /\ err # "ValueError: event_label") =>
        /\ err # "KeyError: QueryName"
        /\ \A k \in DOMAIN dns_susp.rows :
              LET r == results[dns_susp.rows[k].idx]
              IN  all_susp.rows[Len(win_susp.rows) + k].event_label =
                      (IF r.QueryName.t \in {"missing", "none"}
                       THEN Str(S_unknown_dns) ELSE r.QueryName)

\* C6: every entry of the ranked table counts the suspicious records of both
\* partitions that carry its label, and the first entry has a greatest count;
\* in the end-to-end scenario 3 records are suspicious and the first entry is
\* ("WinEvent 4625: LogonFail", 2).
C6_Counts ==
    Ranked =>
        /\ Len(all_susp.rows) = Cardinality(SuspiciousRecords)
        /\ Len(all_susp.rows) = Len(win_susp.rows) + Len(dns_susp.rows)
        /\ \A k \in DOMAIN top : top[k].count = LabelCount(top[k].event)
        /\ top # <<>>
        /\ \A x \in AllLabels : LabelCount(x) <= top[1].count
        /\ results = Scenario =>
              /\ Len(all_susp.rows) = 3
              /\ top[1] = [event |-> Str(S_WinEvent \o <<"4","6","2","5">> \o S_colon
                                         \o S_LogonFail),
                           count |-> 2]

\* C6 witness: the end-to-end scenario has been ranked.
C6_Witness == Ranked /\ results = Scenario /\ Len(top) = 2

\* C7: the ranked table has min(10, d) entries for d distinct labels, its
\* labels are pairwise distinct, and no label left out has a count strictly
\* greater than one that is in.
C7_Size ==
    Ranked =>
        /\ Len(top) = (IF Cardinality(AllLabels) < 10 THEN Cardinality(AllLabels) ELSE 10)
        /\ \A k, m \in DOMAIN top : k # m => top[k].event # top[m].event
        /\ TopLabels \subseteq AllLabels
        /\ \A x \in AllLabels \ TopLabels :
              \A k \in DOMAIN top : LabelCount(x) <= top[k].count

\* C7 witness: more than 10 distinct labels, cut to 10 entries.
C7_Witness == Ranked /\ Cardinality(AllLabels) > 10 /\ Len(top) = 10

C9_GuardedRanking ==
    /\ (pc \in {"prepare_labels", "plot_top10", "print_samples", "done"}
          \/ Called("prepare_labels") \/ Called("plot_top10")) =>
          /\ Len(calls) >= 4
          /\ SubSeq(calls, 1, 4) = <<"create_dataframe", "split_logs",
                                     "mark_suspicious_win", "mark_suspicious_dns">>
          /\ Len(win_susp.rows) + Len(dns_susp.rows) > 0
          /\ SuspiciousRecords # {}
    /\ Called("plot_top10") =>
          Called("prepare_labels") /\ Len(all_susp.rows) > 0
    /\ pc = "nothing" =>
          /\ Len(win_susp.rows) = 0 /\ Len(dns_susp.rows) = 0
          /\ ~Called("prepare_labels") /\ ~Called("plot_top10")
          /\ top = <<>>

\* C9 witness: records of both classes, none suspicious, the run has ended
\* with nothing to report.
C9_Witness ==
    /\ pc = "nothing"
    /\ WinRecords # {} /\ DnsRecords # {}

\* C10 (as stated): whatever the Loader hands over, the run from split_logs
\* through plot_top10 never ends in an error.
C10_NoErrorState ==
    ~(pc = "error" /\ err \in {"KeyError: EventCode", "ValueError: event_label",
                               "KeyError: QueryName"})

====
